---------------------------- MODULE Spec2Model ----------------------------
(***************************************************************************)
(* Model of the phonebook application of                                   *)
(* src/Unit09/Phonebook_Application/app/app.py: the Contact entity and its *)
(* country resolver, the Authenticator backed by credentials.csv, and the  *)
(* Phonebook backed by contacts.csv.                                       *)
(*                                                                         *)
(* A Python str is a sequence of one-character strings, so that prefix     *)
(* tests, case folding and the CSV text written to and parsed from the     *)
(* files are computed character by character.                              *)
(***************************************************************************)
EXTENDS Naturals, Sequences, FiniteSets, TLC

VARIABLES
    pc,            \* position of the run of main(): "idle", "gate_ok", "gate_failed", "menu"
    credFile,      \* credentials.csv: [exists, text]
    contactsFile,  \* contacts.csv: [exists, text]
    current_user,  \* Authenticator.current_user: NoUser or [username, password_hash]
    contacts,      \* Phonebook.contacts of the running process
    contact,       \* a Contact object on its own, or NoContact
    call,          \* the last call made and its arguments
    ret,           \* the value the last call returned
    mem,           \* per process: Phonebook.contacts (two concurrent processes)
    ppc,           \* per process: "ready", or "writing" while contacts.csv is open for writing
    lastSave,      \* the last completed save_contacts of the concurrent processes
    os_linesep     \* os.linesep of the platform: "\n" or "\r\n"

vars == <<pc, credFile, contactsFile, current_user, contacts, contact, call, ret,
          mem, ppc, lastSave, os_linesep>>

authVars == <<credFile, current_user>>
bookVars == <<contactsFile, contacts>>
concVars == <<mem, ppc, lastSave>>

---------------------------------------------------------------------------
(* Bounds of the model.                                                    *)

\* longest phone string drawn from PhoneChars
MaxPhoneLen == 3
\* most contacts a Phonebook holds
MaxContacts == 3
\* most contacts the Phonebook of a run of main() holds
MaxMenuContacts == 1

---------------------------------------------------------------------------
(* Python str helpers.                                                     *)

CR == "\r"
LF == "\n"
DQ == "\""
COMMA == ","

\* Python's None, where a str is expected (csv.DictReader's restval)
None == <<"None">>

Uppers == <<"A","B","C","D","E","F","G","H","I","J","K","L","M",
            "N","O","P","Q","R","S","T","U","V","W","X","Y","Z">>
Lowers == <<"a","b","c","d","e","f","g","h","i","j","k","l","m",
            "n","o","p","q","r","s","t","u","v","w","x","y","z">>

IsUpper(c) == \E i \in DOMAIN Uppers : Uppers[i] = c
IsLower(c) == \E i \in DOMAIN Lowers : Lowers[i] = c
IsCased(c) == IsUpper(c) \/ IsLower(c)
IsSpace(c) == c \in {" ", "\t", CR, LF}

LowerChar(c) == IF IsUpper(c) THEN Lowers[CHOOSE i \in DOMAIN Uppers : Uppers[i] = c] ELSE c
UpperChar(c) == IF IsLower(c) THEN Uppers[CHOOSE i \in DOMAIN Lowers : Lowers[i] = c] ELSE c

\* str.lower()
Lower(s) == [i \in 1..Len(s) |-> LowerChar(s[i])]

\* str.title(): a cased character is upper-cased after an uncased one (or at
\* the start) and lower-cased after a cased one
Title(s) ==
    [i \in 1..Len(s) |->
        IF i > 1 /\ IsCased(s[i-1]) THEN LowerChar(s[i]) ELSE UpperChar(s[i])]

\* str.strip()
Strip(s) ==
    LET keep == {i \in 1..Len(s) : ~IsSpace(s[i])}
    IN  IF keep = {} THEN <<>>
        ELSE LET lo == CHOOSE i \in keep : \A j \in keep : i <= j
                 hi == CHOOSE i \in keep : \A j \in keep : j <= i
             IN  SubSeq(s, lo, hi)

\* s.startswith(prefix)
StartsWith(s, prefix) ==
    /\ Len(prefix) <= Len(s)
    /\ \A i \in 1..Len(prefix) : s[i] = prefix[i]

\* the `in` operator on str: sub in s
Contains(s, sub) ==
    \E k \in 0..(Len(s) - Len(sub)) : \A i \in 1..Len(sub) : s[k + i] = sub[i]

\* all strings over chars of length at most n
RECURSIVE StringsUpTo(_, _)
StringsUpTo(chars, n) ==
    IF n = 0 THEN {<<>>}
    ELSE LET shorter == StringsUpTo(chars, n - 1)
         IN  shorter \cup {Append(s, c) : s \in shorter, c \in chars}

---------------------------------------------------------------------------
(* COUNTRY_CODES, in the order of the dict literal.                        *)

COUNTRY_CODES ==
  <<
    [code |-> <<"+","1">>, country |-> <<"U","S","A","/","C","a","n","a","d","a">>],
    [code |-> <<"+","1","2","4","2">>, country |-> <<"B","a","h","a","m","a","s">>],
    [code |-> <<"+","1","2","4","6">>, country |-> <<"B","a","r","b","a","d","o","s">>],
    [code |-> <<"+","1","2","6","4">>, country |-> <<"A","n","g","u","i","l","l","a">>],
    [code |-> <<"+","1","2","6","8">>, country |-> <<"A","n","t","i","g","u","a"," ","a","n","d"," ","B","a","r","b","u","d","a">>],
    [code |-> <<"+","1","2","8","4">>, country |-> <<"B","r","i","t","i","s","h"," ","V","i","r","g","i","n"," ","I","s","l","a","n","d","s">>],
    [code |-> <<"+","1","3","4","5">>, country |-> <<"C","a","y","m","a","n"," ","I","s","l","a","n","d","s">>],
    [code |-> <<"+","1","4","4","1">>, country |-> <<"B","e","r","m","u","d","a">>],
    [code |-> <<"+","1","4","7","3">>, country |-> <<"G","r","e","n","a","d","a">>],
    [code |-> <<"+","1","6","4","9">>, country |-> <<"T","u","r","k","s"," ","a","n","d"," ","C","a","i","c","o","s">>],
    [code |-> <<"+","1","6","6","4">>, country |-> <<"M","o","n","t","s","e","r","r","a","t">>],
    [code |-> <<"+","1","7","2","1">>, country |-> <<"S","i","n","t"," ","M","a","a","r","t","e","n">>],
    [code |-> <<"+","1","7","5","8">>, country |-> <<"S","a","i","n","t"," ","L","u","c","i","a">>],
    [code |-> <<"+","1","7","6","7">>, country |-> <<"D","o","m","i","n","i","c","a">>],
    [code |-> <<"+","1","7","8","4">>, country |-> <<"S","a","i","n","t"," ","V","i","n","c","e","n","t"," ","&"," ","G","r","e","n","a","d","i","n","e","s">>],
    [code |-> <<"+","1","8","4","9">>, country |-> <<"D","o","m","i","n","i","c","a","n"," ","R","e","p","u","b","l","i","c">>],
    [code |-> <<"+","1","8","6","8">>, country |-> <<"T","r","i","n","i","d","a","d"," ","a","n","d"," ","T","o","b","a","g","o">>],
    [code |-> <<"+","1","8","6","9">>, country |-> <<"S","a","i","n","t"," ","K","i","t","t","s"," ","a","n","d"," ","N","e","v","i","s">>],
    [code |-> <<"+","1","8","7","6">>, country |-> <<"J","a","m","a","i","c","a">>],
    [code |-> <<"+","1","9","3","9">>, country |-> <<"P","u","e","r","t","o"," ","R","i","c","o">>],
    [code |-> <<"+","4","4">>, country |-> <<"U","K">>],
    [code |-> <<"+","3","3">>, country |-> <<"F","r","a","n","c","e">>],
    [code |-> <<"+","4","9">>, country |-> <<"G","e","r","m","a","n","y">>],
    [code |-> <<"+","3","9">>, country |-> <<"I","t","a","l","y">>],
    [code |-> <<"+","3","4">>, country |-> <<"S","p","a","i","n">>],
    [code |-> <<"+","3","5","1">>, country |-> <<"P","o","r","t","u","g","a","l">>],
    [code |-> <<"+","3","5","2">>, country |-> <<"L","u","x","e","m","b","o","u","r","g">>],
    [code |-> <<"+","3","5","3">>, country |-> <<"I","r","e","l","a","n","d">>],
    [code |-> <<"+","3","1">>, country |-> <<"N","e","t","h","e","r","l","a","n","d","s">>],
    [code |-> <<"+","3","2">>, country |-> <<"B","e","l","g","i","u","m">>],
    [code |-> <<"+","4","1">>, country |-> <<"S","w","i","t","z","e","r","l","a","n","d">>],
    [code |-> <<"+","4","3">>, country |-> <<"A","u","s","t","r","i","a">>],
    [code |-> <<"+","4","6">>, country |-> <<"S","w","e","d","e","n">>],
    [code |-> <<"+","4","7">>, country |-> <<"N","o","r","w","a","y">>],
    [code |-> <<"+","4","5">>, country |-> <<"D","e","n","m","a","r","k">>],
    [code |-> <<"+","3","5","8">>, country |-> <<"F","i","n","l","a","n","d">>],
    [code |-> <<"+","3","0">>, country |-> <<"G","r","e","e","c","e">>],
    [code |-> <<"+","4","8">>, country |-> <<"P","o","l","a","n","d">>],
    [code |-> <<"+","4","2","0">>, country |-> <<"C","z","e","c","h"," ","R","e","p","u","b","l","i","c">>],
    [code |-> <<"+","3","6">>, country |-> <<"H","u","n","g","a","r","y">>],
    [code |-> <<"+","4","0">>, country |-> <<"R","o","m","a","n","i","a">>],
    [code |-> <<"+","3","5","9">>, country |-> <<"B","u","l","g","a","r","i","a">>],
    [code |-> <<"+","3","8","5">>, country |-> <<"C","r","o","a","t","i","a">>],
    [code |-> <<"+","3","8","1">>, country |-> <<"S","e","r","b","i","a">>],
    [code |-> <<"+","3","8","6">>, country |-> <<"S","l","o","v","e","n","i","a">>],
    [code |-> <<"+","4","2","1">>, country |-> <<"S","l","o","v","a","k","i","a">>],
    [code |-> <<"+","3","7","0">>, country |-> <<"L","i","t","h","u","a","n","i","a">>],
    [code |-> <<"+","3","7","1">>, country |-> <<"L","a","t","v","i","a">>],
    [code |-> <<"+","3","7","2">>, country |-> <<"E","s","t","o","n","i","a">>],
    [code |-> <<"+","7">>, country |-> <<"R","u","s","s","i","a","/","K","a","z","a","k","h","s","t","a","n">>],
    [code |-> <<"+","3","8","0">>, country |-> <<"U","k","r","a","i","n","e">>],
    [code |-> <<"+","9","0">>, country |-> <<"T","u","r","k","e","y">>],
    [code |-> <<"+","8","6">>, country |-> <<"C","h","i","n","a">>],
    [code |-> <<"+","9","1">>, country |-> <<"I","n","d","i","a">>],
    [code |-> <<"+","8","1">>, country |-> <<"J","a","p","a","n">>],
    [code |-> <<"+","8","2">>, country |-> <<"S","o","u","t","h"," ","K","o","r","e","a">>],
    [code |-> <<"+","6","1">>, country |-> <<"A","u","s","t","r","a","l","i","a">>],
    [code |-> <<"+","6","4">>, country |-> <<"N","e","w"," ","Z","e","a","l","a","n","d">>],
    [code |-> <<"+","6","2">>, country |-> <<"I","n","d","o","n","e","s","i","a">>],
    [code |-> <<"+","6","3">>, country |-> <<"P","h","i","l","i","p","p","i","n","e","s">>],
    [code |-> <<"+","6","5">>, country |-> <<"S","i","n","g","a","p","o","r","e">>],
    [code |-> <<"+","6","6">>, country |-> <<"T","h","a","i","l","a","n","d">>],
    [code |-> <<"+","8","4">>, country |-> <<"V","i","e","t","n","a","m">>],
    [code |-> <<"+","6","0">>, country |-> <<"M","a","l","a","y","s","i","a">>],
    [code |-> <<"+","8","8","6">>, country |-> <<"T","a","i","w","a","n">>],
    [code |-> <<"+","8","5","2">>, country |-> <<"H","o","n","g"," ","K","o","n","g">>],
    [code |-> <<"+","9","2">>, country |-> <<"P","a","k","i","s","t","a","n">>],
    [code |-> <<"+","9","4">>, country |-> <<"S","r","i"," ","L","a","n","k","a">>],
    [code |-> <<"+","8","8","0">>, country |-> <<"B","a","n","g","l","a","d","e","s","h">>],
    [code |-> <<"+","9","7","7">>, country |-> <<"N","e","p","a","l">>],
    [code |-> <<"+","9","5">>, country |-> <<"M","y","a","n","m","a","r">>],
    [code |-> <<"+","9","7","1">>, country |-> <<"U","A","E">>],
    [code |-> <<"+","9","6","6">>, country |-> <<"S","a","u","d","i"," ","A","r","a","b","i","a">>],
    [code |-> <<"+","9","7","2">>, country |-> <<"I","s","r","a","e","l">>],
    [code |-> <<"+","9","8">>, country |-> <<"I","r","a","n">>],
    [code |-> <<"+","9","6","4">>, country |-> <<"I","r","a","q">>],
    [code |-> <<"+","9","7","4">>, country |-> <<"Q","a","t","a","r">>],
    [code |-> <<"+","9","6","5">>, country |-> <<"K","u","w","a","i","t">>],
    [code |-> <<"+","9","6","8">>, country |-> <<"O","m","a","n">>],
    [code |-> <<"+","9","6","2">>, country |-> <<"J","o","r","d","a","n">>],
    [code |-> <<"+","9","6","1">>, country |-> <<"L","e","b","a","n","o","n">>],
    [code |-> <<"+","2","0">>, country |-> <<"E","g","y","p","t">>],
    [code |-> <<"+","2","7">>, country |-> <<"S","o","u","t","h"," ","A","f","r","i","c","a">>],
    [code |-> <<"+","2","3","4">>, country |-> <<"N","i","g","e","r","i","a">>],
    [code |-> <<"+","2","5","4">>, country |-> <<"K","e","n","y","a">>],
    [code |-> <<"+","2","1","2">>, country |-> <<"M","o","r","o","c","c","o">>],
    [code |-> <<"+","2","1","3">>, country |-> <<"A","l","g","e","r","i","a">>],
    [code |-> <<"+","2","1","6">>, country |-> <<"T","u","n","i","s","i","a">>],
    [code |-> <<"+","2","5","1">>, country |-> <<"E","t","h","i","o","p","i","a">>],
    [code |-> <<"+","2","3","3">>, country |-> <<"G","h","a","n","a">>],
    [code |-> <<"+","2","2","5">>, country |-> <<"I","v","o","r","y"," ","C","o","a","s","t">>],
    [code |-> <<"+","2","5","5">>, country |-> <<"T","a","n","z","a","n","i","a">>],
    [code |-> <<"+","2","5","6">>, country |-> <<"U","g","a","n","d","a">>],
    [code |-> <<"+","2","6","0">>, country |-> <<"Z","a","m","b","i","a">>],
    [code |-> <<"+","2","6","3">>, country |-> <<"Z","i","m","b","a","b","w","e">>],
    [code |-> <<"+","5","5">>, country |-> <<"B","r","a","z","i","l">>],
    [code |-> <<"+","5","4">>, country |-> <<"A","r","g","e","n","t","i","n","a">>],
    [code |-> <<"+","5","7">>, country |-> <<"C","o","l","o","m","b","i","a">>],
    [code |-> <<"+","5","6">>, country |-> <<"C","h","i","l","e">>],
    [code |-> <<"+","5","1">>, country |-> <<"P","e","r","u">>],
    [code |-> <<"+","5","8">>, country |-> <<"V","e","n","e","z","u","e","l","a">>],
    [code |-> <<"+","5","9","3">>, country |-> <<"E","c","u","a","d","o","r">>],
    [code |-> <<"+","5","9","1">>, country |-> <<"B","o","l","i","v","i","a">>],
    [code |-> <<"+","5","9","5">>, country |-> <<"P","a","r","a","g","u","a","y">>],
    [code |-> <<"+","5","9","8">>, country |-> <<"U","r","u","g","u","a","y">>],
    [code |-> <<"+","5","2">>, country |-> <<"M","e","x","i","c","o">>],
    [code |-> <<"+","5","0","7">>, country |-> <<"P","a","n","a","m","a">>],
    [code |-> <<"+","5","0","6">>, country |-> <<"C","o","s","t","a"," ","R","i","c","a">>],
    [code |-> <<"+","5","0","3">>, country |-> <<"E","l"," ","S","a","l","v","a","d","o","r">>],
    [code |-> <<"+","5","0","2">>, country |-> <<"G","u","a","t","e","m","a","l","a">>],
    [code |-> <<"+","5","0","4">>, country |-> <<"H","o","n","d","u","r","a","s">>],
    [code |-> <<"+","5","0","5">>, country |-> <<"N","i","c","a","r","a","g","u","a">>]
  >>

Unknown == <<"U","n","k","n","o","w","n">>
General == <<"G","e","n","e","r","a","l">>
Family == <<"F","a","m","i","l","y">>
Friends == <<"F","r","i","e","n","d","s">>
Emergency == <<"E","m","e","r","g","e","n","c","y">>
Favourites == <<"F","a","v","o","u","r","i","t","e","s">>

VALID_CATEGORIES == <<General, Family, Friends, Emergency, Favourites>>

InList(x, list) == \E i \in DOMAIN list : list[i] = x

---------------------------------------------------------------------------
(* class Contact                                                           *)

\* COUNTRY_CODES.keys()
CodeKeys == [i \in DOMAIN COUNTRY_CODES |-> COUNTRY_CODES[i].code]

\* COUNTRY_CODES[code]
CountryOf(code) ==
    COUNTRY_CODES[CHOOSE i \in DOMAIN COUNTRY_CODES : COUNTRY_CODES[i].code = code].country

\* the place of keys[i] in a stable sort by descending length: behind every
\* longer key and behind the keys of its own length that come before it
RankByLenDesc(keys, i) ==
    1 + Cardinality({j \in DOMAIN keys :
                        \/ Len(keys[j]) > Len(keys[i])
                        \/ Len(keys[j]) = Len(keys[i]) /\ j < i})

\* SortedByLenDesc gone wrong: the keys left in dict order
UnsortedCodes(keys) == keys

\* sorted(keys, key=len, reverse=True): a stable sort, longest keys first,
\* keys of equal length in their original order
SortedByLenDesc(keys) ==
    [p \in DOMAIN keys |-> keys[CHOOSE i \in DOMAIN keys : RankByLenDesc(keys, i) = p]]

sorted_codes == SortedByLenDesc(CodeKeys)

\* the for loop of _calculate_country: the country of the first code, in the
\* order of codes, that the phone starts with
FirstMatch(codes, phone) ==
    LET hits == {i \in DOMAIN codes : StartsWith(phone, codes[i])}
    IN  IF hits = {} THEN Unknown
        ELSE CountryOf(codes[CHOOSE i \in hits : \A j \in hits : i <= j])

\* Contact._calculate_country
CalculateCountry(phone) == FirstMatch(sorted_codes, phone)

\* NewContact gone wrong: the category is stored as given
NewContactAnyCategory(name, phone, email, country, category) ==
    [name     |-> name,
     phone    |-> phone,
     email    |-> email,
     country  |-> IF country = Unknown THEN CalculateCountry(phone) ELSE country,
     category |-> category]

\* Contact(name, phone, email, country, category): the dataclass __init__
\* followed by __post_init__
NewContact(name, phone, email, country, category) ==
    [name     |-> name,
     phone    |-> phone,
     email    |-> email,
     country  |-> IF country = Unknown THEN CalculateCountry(phone) ELSE country,
     category |-> IF ~InList(category, VALID_CATEGORIES) THEN General ELSE category]

\* WithPhone gone wrong: the country is left as it was
WithPhoneStale(c, new_phone) == [c EXCEPT !.phone = new_phone]

\* Contact.update_phone: the contact after the call
WithPhone(c, new_phone) ==
    [c EXCEPT !.phone = new_phone, !.country = CalculateCountry(new_phone)]

NoContact == [name |-> None, phone |-> None, email |-> None, country |-> None,
              category |-> None]

\* Authenticator.current_user when it is None
NoUser == [username |-> None, password_hash |-> None]

\* no save_contacts of a concurrent process has completed since the file was
\* last opened for writing
NoSave == [proc |-> 0, overlapped |-> FALSE]

---------------------------------------------------------------------------
(* Values the calls are made with.                                         *)

PhoneChars == {"+", "1", "4"}

Phone_UK == <<"+","4","4","1","2","3">>
Phone_Bahamas == <<"+","1","2","4","2","5","5","5">>
Phone_Bermuda == <<"+","1","4","4","1","7">>
Phone_Local == <<"0","1","2","3">>

Phones == StringsUpTo(PhoneChars, MaxPhoneLen)
            \cup {Phone_UK, Phone_Bahamas, Phone_Bermuda, Phone_Local}

Narnia == <<"N","a","r","n","i","a">>
CountryArgs == {Unknown, Narnia}

Work == <<"W","o","r","k">>
CategoryArgs ==
    {VALID_CATEGORIES[i] : i \in DOMAIN VALID_CATEGORIES}
        \cup {Work, Lower(Family), <<>>, None}

Name_Bob == <<"B","o","b">>
Email_Bob == <<"b","@","x",".","c","o","m">>

NoCall == [op |-> "none", phone |-> None, country |-> None, category |-> None]

---------------------------------------------------------------------------
(* The Contact entity on its own: construction and update_phone.           *)

OthersIdle ==
    /\ pc = "idle"
    /\ credFile = [exists |-> FALSE, text |-> <<>>]
    /\ contactsFile = [exists |-> FALSE, text |-> <<>>]
    /\ current_user = NoUser
    /\ contacts = <<>>
    /\ ret = None
    /\ mem = <<>>
    /\ ppc = <<>>
    /\ lastSave = NoSave
    /\ os_linesep = <<LF>>

InitContact ==
    /\ contact = NoContact
    /\ call = NoCall
    /\ OthersIdle

\* Contact(name, phone, email, country, category)
Construct(phone, country, category) ==
    /\ call.op = "none"
    /\ contact' = NewContact(Name_Bob, phone, Email_Bob, country, category)
    /\ call' = [op |-> "Contact", phone |-> phone, country |-> country,
                category |-> category]
    /\ UNCHANGED <<pc, authVars, bookVars, ret, concVars, os_linesep>>

\* contact.update_phone(new_phone)
UpdatePhone(new_phone) ==
    /\ call.op /= "none"
    /\ contact' = WithPhone(contact, new_phone)
    /\ call' = [call EXCEPT !.op = "update_phone", !.phone = new_phone]
    /\ UNCHANGED <<pc, authVars, bookVars, ret, concVars, os_linesep>>

NextContact ==
    \/ \E phone \in Phones, country \in CountryArgs, category \in CategoryArgs :
            Construct(phone, country, category)
    \/ \E new_phone \in Phones : UpdatePhone(new_phone)

SpecContact == InitContact /\ [][NextContact]_vars

\* the keys of COUNTRY_CODES that phone starts with
MatchingCodes(phone) ==
    {i \in DOMAIN COUNTRY_CODES : StartsWith(phone, COUNTRY_CODES[i].code)}

\* the country was computed by _calculate_country from the current phone
Resolved ==
    \/ call.op = "update_phone"
    \/ call.op = "Contact" /\ call.country = Unknown

\* C1: the resolver returns the country of the longest key of COUNTRY_CODES
\* that the phone starts with, and "Unknown" when no key is a prefix of it.
C1_LongestPrefix ==
    Resolved =>
        LET m == MatchingCodes(contact.phone)
        IN  IF m = {} THEN contact.country = Unknown
            ELSE \E i \in m :
                    /\ \A j \in m : Len(COUNTRY_CODES[j].code) <= Len(COUNTRY_CODES[i].code)
                    /\ contact.country = COUNTRY_CODES[i].country

\* a phone matched by a key and by its shorter parent key resolved to the
\* longer key's country: "+1242555" gave Bahamas
C1_Witness ==
    /\ Resolved
    /\ contact.phone = Phone_Bahamas
    /\ Cardinality(MatchingCodes(contact.phone)) = 2
    /\ contact.country = <<"B","a","h","a","m","a","s">>

\* C2: after update_phone(p) the phone is p and the country is the
\* resolver's result for p, whatever the phone and country were before.
C2_UpdatePhoneConsistent ==
    call.op = "update_phone" =>
        /\ contact.phone = call.phone
        /\ contact.country = CalculateCountry(call.phone)

\* a contact built with an explicit country and a phone of a known prefix,
\* updated to a phone of no known prefix
C2_Witness ==
    /\ call.op = "update_phone"
    /\ call.country = Narnia
    /\ call.phone = Phone_Local
    /\ contact.country = Unknown

\* C3: a constructed Contact has one of the five categories: an argument
\* outside them became General, one of them was kept.
C3_CategoryNormalized ==
    call.op /= "none" =>
        /\ InList(contact.category, VALID_CATEGORIES)
        /\ InList(call.category, VALID_CATEGORIES) => contact.category = call.category
        /\ ~InList(call.category, VALID_CATEGORIES) => contact.category = General

\* a contact built with the unrecognised category "Work"
C3_Witness ==
    /\ call.op = "Contact"
    /\ call.category = Work
    /\ contact.category = General

---------------------------------------------------------------------------
(* The csv module (excel dialect) and the text files.                      *)

NoFile == [exists |-> FALSE, text |-> <<>>]

\* every character of s replaced by the string Sub(c), for the characters
\* lo..hi of s
RECURSIVE Doubled(_, _, _)
Doubled(s, lo, hi) ==
    IF lo > hi THEN <<>>
    ELSE IF lo = hi THEN (IF s[lo] = DQ THEN <<DQ, DQ>> ELSE <<s[lo]>>)
    ELSE LET mid == (lo + hi) \div 2
         IN  Doubled(s, lo, mid) \o Doubled(s, mid + 1, hi)

\* csv.writer, QUOTE_MINIMAL: a field holding the delimiter, the quote
\* character or a character of the line terminator is quoted, its quote
\* characters doubled; None is written as the empty string
CsvField(value) ==
    LET s == IF value = None THEN <<>> ELSE value
    IN  IF \E i \in DOMAIN s : s[i] \in {COMMA, DQ, CR, LF}
        THEN <<DQ>> \o Doubled(s, 1, Len(s)) \o <<DQ>>
        ELSE s

RECURSIVE CsvJoin(_, _)
CsvJoin(row, i) ==
    IF i > Len(row) THEN <<>>
    ELSE IF i = Len(row) THEN CsvField(row[i])
    ELSE CsvField(row[i]) \o <<COMMA>> \o CsvJoin(row, i + 1)

\* csv.writer.writerow(row): the line written, ended by "\r\n"; a row of one
\* empty field is written as ""
CsvWriteRow(row) ==
    (IF Len(row) = 1 /\ CsvField(row[1]) = <<>> THEN <<DQ, DQ>> ELSE CsvJoin(row, 1))
        \o <<CR, LF>>

\* text written to a file opened in text mode with the default newline=None:
\* every "\n" becomes linesep
RECURSIVE WriteTranslated(_, _, _, _)
WriteTranslated(s, lo, hi, linesep) ==
    IF lo > hi THEN <<>>
    ELSE IF lo = hi THEN (IF s[lo] = LF THEN linesep ELSE <<s[lo]>>)
    ELSE LET mid == (lo + hi) \div 2
         IN  WriteTranslated(s, lo, mid, linesep) \o WriteTranslated(s, mid + 1, hi, linesep)

\* text read from a file opened in text mode with the default newline=None
\* (universal newlines): "\r\n" and a lone "\r" are read as "\n"
ReadTranslated(text) ==
    LET idx  == [i \in 1..Len(text) |-> i]
        kept == SelectSeq(idx, LAMBDA i : ~(text[i] = LF /\ i > 1 /\ text[i-1] = CR))
    IN  [k \in 1..Len(kept) |-> IF text[kept[k]] = CR THEN LF ELSE text[kept[k]]]

\* the csv reader's parser (Reader_iternext and parse_process_char of _csv.c)
ParserStart == [state |-> "START_RECORD", field |-> <<>>, fields |-> <<>>, rows |-> <<>>]

ParseSaveField(st) == [st EXCEPT !.fields = Append(@, st.field), !.field = <<>>]
ParseAddChar(st, c) == [st EXCEPT !.field = Append(@, c)]
ParseEndRecord(st) ==
    [st EXCEPT !.state = "START_RECORD", !.rows = Append(@, st.fields), !.fields = <<>>]

ParseStartField(st, c) ==
    IF c \in {LF, CR} THEN [ParseSaveField(st) EXCEPT !.state = "EAT_CRNL"]
    ELSE IF c = DQ THEN [st EXCEPT !.state = "IN_QUOTED_FIELD"]
    ELSE IF c = COMMA THEN [ParseSaveField(st) EXCEPT !.state = "START_FIELD"]
    ELSE [ParseAddChar(st, c) EXCEPT !.state = "IN_FIELD"]

\* parse_process_char for a character of the line
ParseChar(st, c) ==
    CASE st.state = "START_RECORD" ->
            IF c \in {LF, CR} THEN [st EXCEPT !.state = "EAT_CRNL"]
            ELSE ParseStartField(st, c)
      [] st.state = "START_FIELD" -> ParseStartField(st, c)
      [] st.state = "IN_FIELD" ->
            IF c \in {LF, CR} THEN [ParseSaveField(st) EXCEPT !.state = "EAT_CRNL"]
            ELSE IF c = COMMA THEN [ParseSaveField(st) EXCEPT !.state = "START_FIELD"]
            ELSE ParseAddChar(st, c)
      [] st.state = "IN_QUOTED_FIELD" ->
            IF c = DQ THEN [st EXCEPT !.state = "QUOTE_IN_QUOTED_FIELD"]
            ELSE ParseAddChar(st, c)
      [] st.state = "QUOTE_IN_QUOTED_FIELD" ->
            IF c = DQ THEN [ParseAddChar(st, c) EXCEPT !.state = "IN_QUOTED_FIELD"]
            ELSE IF c = COMMA THEN [ParseSaveField(st) EXCEPT !.state = "START_FIELD"]
            ELSE IF c \in {LF, CR} THEN [ParseSaveField(st) EXCEPT !.state = "EAT_CRNL"]
            ELSE [ParseAddChar(st, c) EXCEPT !.state = "IN_FIELD"]
      [] st.state = "EAT_CRNL" ->
            IF c \in {LF, CR} THEN st ELSE [st EXCEPT !.state = "ERROR"]
      [] OTHER -> st

\* parse_process_char for the end of a line
ParseEOL(st) ==
    CASE st.state = "START_RECORD" -> ParseEndRecord(st)
      [] st.state \in {"START_FIELD", "IN_FIELD", "QUOTE_IN_QUOTED_FIELD"} ->
            ParseEndRecord(ParseSaveField(st))
      [] st.state = "IN_QUOTED_FIELD" -> st
      [] st.state = "EAT_CRNL" -> ParseEndRecord(st)
      [] OTHER -> st

\* the character text[i], and the end of its line when it is the line's last
ParseAt(st, text, i) ==
    LET after == ParseChar(st, text[i])
    IN  IF text[i] = LF \/ i = Len(text) THEN ParseEOL(after) ELSE after

\* the characters lo..hi of the text, in order; the left half is parsed
\* before the right half is begun
RECURSIVE ParseRange(_, _, _, _)
ParseRange(st, text, lo, hi) ==
    IF lo > hi THEN st
    ELSE IF lo = hi THEN ParseAt(st, text, lo)
    ELSE LET mid  == (lo + hi) \div 2
             left == ParseRange(st, text, lo, mid)
         IN  IF left.state = "ERROR" THEN left
             ELSE ParseRange(left, text, mid + 1, hi)

\* list(csv.reader(file)) for a file opened with the default newline=None:
\* the input ending inside a quoted field still yields the record
CsvRows(text) ==
    LET lines == ReadTranslated(text)
        st    == ParseRange(ParserStart, lines, 1, Len(lines))
    IN  IF st.state = "IN_QUOTED_FIELD" THEN ParseEndRecord(ParseSaveField(st)).rows
        ELSE st.rows

\* the rows csv.DictReader yields, each as the function from the field names
\* (the first row) to the values: empty rows are skipped, a short row is
\* filled with None
NonEmptyRows(rows) == SelectSeq(rows, LAMBDA r : r /= <<>>)

DictRow(fieldnames, row) ==
    [k \in {fieldnames[i] : i \in DOMAIN fieldnames} |->
        LET i == CHOOSE j \in DOMAIN fieldnames :
                    /\ fieldnames[j] = k
                    /\ \A m \in DOMAIN fieldnames : fieldnames[m] = k => m <= j
        IN  IF i <= Len(row) THEN row[i] ELSE None]

CsvDictRows(text) ==
    LET rows == CsvRows(text)
    IN  IF rows = <<>> THEN <<>>
        ELSE LET data == NonEmptyRows(Tail(rows))
             IN  [n \in DOMAIN data |-> DictRow(rows[1], data[n])]

---------------------------------------------------------------------------
(* class Phonebook                                                         *)

F_name == <<"n","a","m","e">>
F_phone == <<"p","h","o","n","e">>
F_country == <<"c","o","u","n","t","r","y">>
F_email == <<"e","m","a","i","l">>
F_category == <<"c","a","t","e","g","o","r","y">>

\* fieldnames of save_contacts
CONTACT_FIELDNAMES == <<F_name, F_phone, F_country, F_email, F_category>>

\* [asdict(contact)[f] for f in fieldnames]
ContactRow(c) == <<c.name, c.phone, c.country, c.email, c.category>>

RECURSIVE ContactLines(_, _)
ContactLines(list, i) ==
    IF i > Len(list) THEN <<>>
    ELSE CsvWriteRow(ContactRow(list[i])) \o ContactLines(list, i + 1)

\* the text save_contacts writes: the header and one row per contact
SaveText(list) == CsvWriteRow(CONTACT_FIELDNAMES) \o ContactLines(list, 1)

\* Phonebook.save_contacts: contacts.csv after the call; the file is opened
\* with newline="", so the text is written as it is
SavedContacts(list) == [exists |-> TRUE, text |-> SaveText(list)]

\* Contact(**line) for a row of the DictReader
ContactOfRow(d) ==
    NewContact(d[F_name], d[F_phone], d[F_email],
               IF F_country \in DOMAIN d THEN d[F_country] ELSE Unknown,
               IF F_category \in DOMAIN d THEN d[F_category] ELSE General)

\* Contact(**line) raises: a keyword that is no field of Contact (among them
\* the restkey None of a row longer than the header), a required field
\* missing, or the resolver called on a phone that is None
LoadRaises(file) ==
    /\ file.exists
    /\ LET rows == CsvRows(file.text)
       IN  /\ rows /= <<>>
           /\ NonEmptyRows(Tail(rows)) /= <<>>
           /\ \/ \E i \in DOMAIN rows[1] : ~InList(rows[1][i], CONTACT_FIELDNAMES)
              \/ \E f \in {F_name, F_phone, F_email} : ~InList(f, rows[1])
              \/ \E n \in 2..Len(rows) : Len(rows[n]) > Len(rows[1])
              \/ \E n \in 2..Len(rows) :
                    /\ rows[n] /= <<>>
                    /\ DictRow(rows[1], rows[n])[F_phone] = None
                    /\ \/ ~InList(F_country, rows[1])
                       \/ DictRow(rows[1], rows[n])[F_country] = Unknown

\* Phonebook.load_contacts into the empty list of __init__: a missing file
\* leaves the list empty
LoadContacts(file) ==
    IF ~file.exists THEN <<>>
    ELSE LET rows == CsvDictRows(file.text)
         IN  [n \in DOMAIN rows |-> ContactOfRow(rows[n])]

\* NameMatches gone wrong: the query is compared as typed
NameMatchesCased(c, query) == Contains(c.name, query)

\* query.lower() in contact.name.lower()
NameMatches(c, query) == Contains(Lower(c.name), Lower(query))

\* the for loop of search_contacts from index i on
RECURSIVE SearchFrom(_, _, _)
SearchFrom(list, query, i) ==
    IF i > Len(list) THEN <<>>
    ELSE (IF NameMatches(list[i], query) THEN <<list[i]>> ELSE <<>>)
            \o SearchFrom(list, query, i + 1)

\* Phonebook.search_contacts
SearchContacts(list, query) == SearchFrom(list, query, 1)

\* ListRemove gone wrong: every element equal to x is removed
ListRemoveAll(list, x) == SelectSeq(list, LAMBDA e : e /= x)

\* list.remove(x), x being in the list: the first element equal to x is removed
RECURSIVE ListRemove(_, _)
ListRemove(list, x) ==
    IF list = <<>> THEN <<>>
    ELSE IF Head(list) = x THEN Tail(list)
    ELSE <<Head(list)>> \o ListRemove(Tail(list), x)

---------------------------------------------------------------------------
(* The Phonebook on its own: the calls a caller can make on it.            *)

Name_Bobby == <<"b","o","b","b","y">>
Name_Quoted == <<"A","l",",",DQ>>
Name_CR == <<"E","v",CR,"e">>
Email_Al == <<"a","@","x">>

Contact_Bob == NewContact(Name_Bob, Phone_UK, Email_Bob, Unknown, General)
Contact_Bobby == NewContact(Name_Bobby, Phone_Bahamas, <<>>, Unknown, Family)
Contact_Quoted == NewContact(Name_Quoted, Phone_Local, Email_Al, Narnia, Work)
Contact_CR == NewContact(Name_CR, Phone_Local, <<>>, Unknown, General)

ContactSamples == {Contact_Bob, Contact_Bobby, Contact_Quoted, Contact_CR}

Query_BO == <<"B","O">>
Query_44 == <<"4","4">>
Query_UK == <<"U","K">>
Queries == {<<>>, Query_BO, Lower(Name_Bob), Query_44, Query_UK}

InitPhonebook ==
    /\ pc = "idle"
    /\ credFile = NoFile
    /\ contactsFile = NoFile
    /\ current_user = NoUser
    /\ contacts = <<>>
    /\ contact = NoContact
    /\ call = [op |-> "Phonebook", arg |-> None]
    /\ ret = None
    /\ mem = <<>>
    /\ ppc = <<>>
    /\ lastSave = NoSave
    /\ os_linesep = <<LF>>

\* Phonebook(filename): a later run opens the file the earlier one left
PhonebookNew ==
    /\ ~LoadRaises(contactsFile)
    /\ contacts' = LoadContacts(contactsFile)
    /\ call' = [op |-> "Phonebook", arg |-> None]
    /\ ret' = None
    /\ UNCHANGED <<pc, authVars, contactsFile, contact, concVars, os_linesep>>

\* phonebook.add_contact(c)
AddContact(c) ==
    /\ Len(contacts) < MaxContacts
    /\ contacts' = Append(contacts, c)
    /\ contactsFile' = SavedContacts(contacts')
    /\ call' = [op |-> "add_contact", arg |-> c]
    /\ ret' = None
    /\ UNCHANGED <<pc, authVars, contact, concVars, os_linesep>>

\* phonebook.delete_contact(c)
DeleteContact(c) ==
    /\ IF InList(c, contacts)
       THEN /\ contacts' = ListRemove(contacts, c)
            /\ contactsFile' = SavedContacts(contacts')
       ELSE UNCHANGED <<contacts, contactsFile>>
    /\ call' = [op |-> "delete_contact", arg |-> c]
    /\ ret' = None
    /\ UNCHANGED <<pc, authVars, contact, concVars, os_linesep>>

\* phonebook.search_contacts(query)
Search(query) ==
    /\ ret' = SearchContacts(contacts, query)
    /\ call' = [op |-> "search_contacts", arg |-> query]
    /\ UNCHANGED <<pc, authVars, bookVars, contact, concVars, os_linesep>>

NextPhonebook ==
    \/ PhonebookNew
    \/ \E c \in ContactSamples : AddContact(c)
    \/ \E c \in ContactSamples : DeleteContact(c)
    \/ \E query \in Queries : Search(query)

SpecPhonebook == InitPhonebook /\ [][NextPhonebook]_vars

\* the name holds the query when letter case is ignored
MatchesIgnoringCase(name, query) ==
    \E k \in 0..(Len(name) - Len(query)) :
        \A i \in 1..Len(query) : LowerChar(name[k + i]) = LowerChar(query[i])

\* C4: search_contacts(q) returns exactly the contacts whose name holds q,
\* letter case ignored, in the order of the collection; it looks at the name
\* only, leaves the collection and the file as they were, and returns the
\* whole collection for the empty query.
C4_Search ==
    [][call'.op = "search_contacts" =>
          /\ ret' = SelectSeq(contacts, LAMBDA c : MatchesIgnoringCase(c.name, call'.arg))
          /\ call'.arg = <<>> => ret' = contacts
          /\ UNCHANGED <<contacts, contactsFile>>]_vars

\* the query "BO" found "bobby" and "Bob", in that order, and not the
\* contact between them
C4_Witness ==
    /\ call.op = "search_contacts"
    /\ call.arg = Query_BO
    /\ contacts = <<Contact_Bobby, Contact_Quoted, Contact_Bob>>
    /\ ret = <<Contact_Bobby, Contact_Bob>>

\* C5: after any sequence of add_contact and delete_contact calls, a new
\* Phonebook on the same file holds the collection the first one holds, the
\* same contacts in the same order with the same field values.
C5_RestartEqual ==
    call.op \in {"add_contact", "delete_contact"} =>
        LoadContacts(contactsFile) = contacts

\* C9: delete_contact(c) removes the first element equal to c and no other,
\* and rewrites the file with what is left; with no element equal to c it
\* changes neither the collection nor the file.
C9_DeleteFirst ==
    [][call'.op = "delete_contact" =>
          LET c == call'.arg
              at == {k \in DOMAIN contacts : contacts[k] = c}
          IN  IF at = {} THEN UNCHANGED <<contacts, contactsFile>>
              ELSE LET k == CHOOSE i \in at : \A j \in at : i <= j
                   IN  /\ contacts' = SubSeq(contacts, 1, k - 1)
                                        \o SubSeq(contacts, k + 1, Len(contacts))
                       /\ contactsFile' = [exists |-> TRUE, text |-> SaveText(contacts')]
      ]_vars

\* a contact held twice was deleted: one copy is gone, the other is still
\* in the collection and in the file, behind the contact that was not touched
C9_Witness ==
    /\ call.op = "delete_contact"
    /\ call.arg = Contact_Bob
    /\ contacts = <<Contact_Quoted, Contact_Bob>>
    /\ LoadContacts(contactsFile) = contacts

---------------------------------------------------------------------------
(* class User and class Authenticator                                      *)

\* the passwords typed; a password is only ever hashed, so it is one value
Passwords == {"secret1", "Secret1", ""}

\* hashlib.sha256(p.encode()).hexdigest() of the passwords of Passwords
Sha256Hex(p) ==
    CASE
         p = "secret1" ->
          <<"5","b","1","1","6","1","8","c","2","e","4","4","0","2","7","8","7","7","d","0","c","d","0","9","2","1","e","d","1","6","6","b","9","f","1","7","6","f","5","0","5","8","7","f","c","9","1","e","7","5","3","4","d","d","2","9","4","6","d","b","7","7","d","6">>
      [] p = "Secret1" ->
          <<"6","4","3","4","0","5","0","6","1","4","2","b","0","e","1","b","a","b","c","b","0","2","c","3","4","2","d","7","6","a","8","5","4","4","6","9","d","5","d","6","1","e","d","f","4","b","d","6","c","b","1","c","2","4","9","a","c","0","0","9","7","2","6","e">>
      [] p = "" ->
          <<"e","3","b","0","c","4","4","2","9","8","f","c","1","c","1","4","9","a","f","b","f","4","c","8","9","9","6","f","b","9","2","4","2","7","a","e","4","1","e","4","6","4","9","b","9","3","4","c","a","4","9","5","9","9","1","b","7","8","5","2","b","8","5","5">>

F_username == <<"u","s","e","r","n","a","m","e">>
F_password_hash == <<"p","a","s","s","w","o","r","d","_","h","a","s","h">>

\* fieldnames of _save_to_csv
CRED_FIELDNAMES == <<F_username, F_password_hash>>

\* User(username, hashed) of setup_account
NewUser(username, raw_password) ==
    [username |-> username, password_hash |-> Sha256Hex(raw_password)]

\* Authenticator._save_to_csv: credentials.csv after the call; the file is
\* opened without newline="", so every "\n" is written as os.linesep
SavedCredentials(user, linesep) ==
    LET text == CsvWriteRow(CRED_FIELDNAMES)
                    \o CsvWriteRow(<<user.username, user.password_hash>>)
    IN  [exists |-> TRUE, text |-> WriteTranslated(text, 1, Len(text), linesep)]

\* Authenticator._load_from_csv: current_user after the call, which is the
\* first row of the file, and what it was when there is no file or no row
LoadedUser(file, user) ==
    IF ~file.exists THEN user
    ELSE LET rows == CsvDictRows(file.text)
         IN  IF rows = <<>> THEN user
             ELSE [username      |-> rows[1][F_username],
                   password_hash |-> rows[1][F_password_hash]]

\* User.verify_password
VerifyPassword(user, input_password) == Sha256Hex(input_password) = user.password_hash

\* current_user after login(): loaded from the file when it was None
UserAtLogin(file, user) == IF user = NoUser THEN LoadedUser(file, user) ELSE user

\* LoginResult gone wrong: any loaded user is let in
LoginResultAnyUser(user, raw_password) == user /= NoUser

\* the value login() returns
LoginResult(user, raw_password) ==
    IF user /= NoUser /\ VerifyPassword(user, raw_password) THEN TRUE ELSE FALSE

---------------------------------------------------------------------------
(* The Authenticator on its own: registration, then logins in any order    *)
(* on the same object or on a new one.                                     *)

User_alice == <<"a","l","i","c","e">>
User_Quoted == <<"a",",",DQ,CR,"b">>
Usernames == {User_alice, User_Quoted}

Linesep_POSIX == <<LF>>
Linesep_Windows == <<CR, LF>>

InitAuth ==
    /\ pc = "idle"
    /\ credFile = NoFile
    /\ contactsFile = NoFile
    /\ current_user = NoUser
    /\ contacts = <<>>
    /\ contact = NoContact
    /\ call = [op |-> "Authenticator", password |-> "", registered |-> {}, loaded |-> FALSE]
    /\ ret = FALSE
    /\ mem = <<>>
    /\ ppc = <<>>
    /\ lastSave = NoSave
    /\ os_linesep \in {Linesep_POSIX, Linesep_Windows}

\* Authenticator(filename) in a later run, on the file the earlier one left
AuthenticatorNew ==
    /\ current_user' = NoUser
    /\ call' = [call EXCEPT !.op = "Authenticator", !.loaded = FALSE]
    /\ ret' = FALSE
    /\ UNCHANGED <<pc, credFile, bookVars, contact, concVars, os_linesep>>

\* auth.setup_account(username, raw_password), called as attempt_login calls
\* it: when there is no credentials file
SetupAccount(username, raw_password) ==
    /\ ~credFile.exists
    /\ current_user' = NewUser(username, raw_password)
    /\ credFile' = SavedCredentials(current_user', os_linesep)
    /\ call' = [op |-> "setup_account", password |-> raw_password,
                registered |-> {raw_password}, loaded |-> FALSE]
    /\ ret' = FALSE
    /\ UNCHANGED <<pc, bookVars, contact, concVars, os_linesep>>

\* auth.login(raw_password)
Login(raw_password) ==
    /\ current_user' = UserAtLogin(credFile, current_user)
    /\ ret' = LoginResult(current_user', raw_password)
    /\ call' = [call EXCEPT !.op = "login", !.password = raw_password,
                            !.loaded = (current_user = NoUser)]
    /\ UNCHANGED <<pc, credFile, bookVars, contact, concVars, os_linesep>>

NextAuth ==
    \/ AuthenticatorNew
    \/ \E username \in Usernames, raw_password \in Passwords :
            SetupAccount(username, raw_password)
    \/ \E raw_password \in Passwords : Login(raw_password)

SpecAuth == InitAuth /\ [][NextAuth]_vars

\* C6: once an account is set up, login(p) returns True for the registered
\* password and False for every other one, on the same Authenticator and on
\* a new one on the same file, however many logins came before.
C6_LoginIffRegistered ==
    (call.op = "login" /\ call.registered /= {}) =>
        ret = (call.password \in call.registered)

\* a new Authenticator read the credentials back from the file and let the
\* registered password in
C6_Witness ==
    /\ call.op = "login"
    /\ call.loaded
    /\ call.registered = {"secret1"}
    /\ call.password = "secret1"
    /\ ret = TRUE
    /\ current_user.password_hash = Sha256Hex("secret1")

---------------------------------------------------------------------------
(* The program: main(), the login gate and the menu handlers.              *)

\* the characters a str of the model is made of (ASCII without the backslash
\* and the backquote), by ascending code point
CodePoints ==
    <<"\t","\n","\r"," ","!","\"","#","$","%","&","'","(",")","*","+",",",
      "-",".","/","0","1","2","3","4","5","6","7","8","9",":",";","<",
      "=",">","?","@","A","B","C","D","E","F","G","H","I","J","K","L",
      "M","N","O","P","Q","R","S","T","U","V","W","X","Y","Z","[",
      "]","^","_","a","b","c","d","e","f","g","h","i","j","k","l",
      "m","n","o","p","q","r","s","t","u","v","w","x","y","z","{","|",
      "}","~">>

\* the place of c among the code points: c < d as Python compares characters
Ord(c) == CHOOSE i \in DOMAIN CodePoints : CodePoints[i] = c

\* a < b as Python compares str
StrLess(a, b) ==
    \E k \in 1..(Len(b)) :
        /\ k <= Len(a) + 1
        /\ \A i \in 1..(k - 1) : a[i] = b[i]
        /\ k = Len(a) + 1 \/ Ord(a[k]) < Ord(b[k])

\* sorted(phonebook.contacts, key=lambda c: c.name): a stable sort
SortedByName(list) ==
    LET rank(i) == 1 + Cardinality({j \in DOMAIN list :
                        \/ StrLess(list[j].name, list[i].name)
                        \/ list[j].name = list[i].name /\ j < i})
    IN  [p \in DOMAIN list |-> list[CHOOSE i \in DOMAIN list : rank(i) = p]]

\* AccountExists gone wrong: the file is never found
AccountExistsNever(file) == FALSE

\* os.path.exists(auth.filename) in attempt_login
AccountExists(file) == file.exists

\* add_contact's loop over the category prompt: the first input that, stripped
\* and title-cased, is blank or a valid category decides; inputs before it
\* are turned down and asked again
CategoryAccepted(category_input) ==
    LET typed == Title(Strip(category_input))
    IN  typed = <<>> \/ InList(typed, VALID_CATEGORIES)

CategoryChosen(category_inputs) ==
    LET i == CHOOSE j \in DOMAIN category_inputs :
                /\ CategoryAccepted(category_inputs[j])
                /\ \A m \in 1..(j - 1) : ~CategoryAccepted(category_inputs[m])
        typed == Title(Strip(category_inputs[i]))
    IN  IF typed = <<>> THEN General ELSE typed

\* matches[0] of the handlers: the place in the collection of the first
\* contact search_contacts returns
FirstMatchIndex(list, query) ==
    CHOOSE i \in DOMAIN list :
        /\ NameMatches(list[i], query)
        /\ \A j \in 1..(i - 1) : ~NameMatches(list[j], query)

MenuUsernames == {User_alice}
MenuPasswords == {"secret1", "Secret1"}
MenuNames == {Name_Bob, Name_Bobby}
MenuPhones == {Phone_UK, Phone_Bahamas}
CategoryInputs == {<<<<>>>>, <<Lower(Work), <<" ">> \o Lower(Family) \o <<" ">>>>}
QueryInputs == {<<>>, <<" ">> \o Name_Bob, Lower(Name_Bobby), Query_44}
UpdateChoices == {"1", "2", "3", "4"}
UpdateValues(choice) ==
    CASE choice = "1" -> MenuNames
      [] choice = "2" -> MenuPhones
      [] choice = "3" -> {Email_Al}
      [] OTHER -> {<<>>}
Confirms == {"y", "Y", "n"}

Init ==
    /\ pc = "idle"
    /\ credFile = NoFile
    /\ contactsFile = NoFile
    /\ current_user = NoUser
    /\ contacts = <<>>
    /\ contact = NoContact
    /\ call = [op |-> "none", arg |-> ""]
    /\ ret = FALSE
    /\ mem = <<>>
    /\ ppc = <<>>
    /\ lastSave = NoSave
    /\ os_linesep \in {Linesep_POSIX, Linesep_Windows}

\* main() up to the return of attempt_login(auth), on a new Authenticator:
\* a login when the credentials file exists, a registration when it does not
AttemptLogin(username, password) ==
    /\ pc = "idle"
    /\ IF AccountExists(credFile)
       THEN /\ current_user' = UserAtLogin(credFile, NoUser)
            /\ ret' = LoginResult(current_user', password)
            /\ call' = [op |-> "login", arg |-> password]
            /\ UNCHANGED credFile
       ELSE /\ current_user' = NewUser(username, password)
            /\ credFile' = SavedCredentials(current_user', os_linesep)
            /\ ret' = TRUE
            /\ call' = [op |-> "setup_account", arg |-> password]
    /\ pc' = IF ret' THEN "gate_ok" ELSE "gate_failed"
    /\ UNCHANGED <<bookVars, contact, concVars, os_linesep>>

\* LoginFailedExit gone wrong: the return is missing, and main() goes on
\* to the Phonebook and the menu
LoginFailedFallsThrough ==
    /\ pc = "gate_failed"
    /\ pc' = "menu"
    /\ contacts' = LoadContacts(contactsFile)
    /\ call' = [op |-> "Phonebook", arg |-> ""]
    /\ ret' = None
    /\ UNCHANGED <<authVars, contactsFile, contact, concVars, os_linesep>>

\* main(): "Login failed. Exiting." and the return
LoginFailedExit ==
    /\ pc = "gate_failed"
    /\ pc' = "idle"
    /\ current_user' = NoUser
    /\ call' = [op |-> "exit", arg |-> ""]
    /\ ret' = None
    /\ UNCHANGED <<credFile, bookVars, contact, concVars, os_linesep>>

\* main(): phonebook = Phonebook("contacts.csv")
OpenPhonebook ==
    /\ pc = "gate_ok"
    /\ ~LoadRaises(contactsFile)
    /\ contacts' = LoadContacts(contactsFile)
    /\ pc' = "menu"
    /\ call' = [op |-> "Phonebook", arg |-> ""]
    /\ ret' = None
    /\ UNCHANGED <<authVars, contactsFile, contact, concVars, os_linesep>>

\* menu choice 1: add_contact(phonebook)
HandleAddContact(name, phone, email, category_inputs) ==
    /\ pc = "menu"
    /\ Len(contacts) < MaxMenuContacts
    /\ \E j \in DOMAIN category_inputs : CategoryAccepted(category_inputs[j])
    /\ contacts' = Append(contacts,
            NewContact(name, phone, email, Unknown, CategoryChosen(category_inputs)))
    /\ contactsFile' = SavedContacts(contacts')
    /\ call' = [op |-> "add_contact", arg |-> ""]
    /\ ret' = None
    /\ UNCHANGED <<pc, authVars, contact, concVars, os_linesep>>

\* menu choice 2: search_contact(phonebook)
HandleSearchContact(query_input) ==
    /\ pc = "menu"
    /\ ret' = SearchContacts(contacts, Strip(query_input))
    /\ call' = [op |-> "search_contact", arg |-> ""]
    /\ UNCHANGED <<pc, authVars, bookVars, contact, concVars, os_linesep>>

\* menu choice 3: handle_list_contacts(phonebook)
HandleListContacts ==
    /\ pc = "menu"
    /\ ret' = SortedByName(contacts)
    /\ call' = [op |-> "handle_list_contacts", arg |-> ""]
    /\ UNCHANGED <<pc, authVars, bookVars, contact, concVars, os_linesep>>

\* menu choice 4: handle_update_contact(phonebook)
HandleUpdateContact(query_input, choice, value) ==
    /\ pc = "menu"
    /\ LET query == Strip(query_input)
       IN  IF SearchContacts(contacts, query) = <<>>
           THEN UNCHANGED bookVars
           ELSE LET i == FirstMatchIndex(contacts, query)
                    target == contacts[i]
                    updated == CASE choice = "1" -> [target EXCEPT !.name = value]
                                 [] choice = "2" -> WithPhone(target, value)
                                 [] choice = "3" -> [target EXCEPT !.email = value]
                                 [] OTHER -> target
                IN  /\ contacts' = [contacts EXCEPT ![i] = updated]
                    /\ contactsFile' = SavedContacts(contacts')
    /\ call' = [op |-> "handle_update_contact", arg |-> ""]
    /\ ret' = None
    /\ UNCHANGED <<pc, authVars, contact, concVars, os_linesep>>

\* menu choice 5: handle_delete_contact(phonebook)
HandleDeleteContact(query_input, confirm) ==
    /\ pc = "menu"
    /\ LET matches == SearchContacts(contacts, Strip(query_input))
       IN  IF matches /= <<>> /\ LowerChar(confirm) = "y" /\ InList(matches[1], contacts)
           THEN /\ contacts' = ListRemove(contacts, matches[1])
                /\ contactsFile' = SavedContacts(contacts')
           ELSE UNCHANGED bookVars
    /\ call' = [op |-> "handle_delete_contact", arg |-> ""]
    /\ ret' = None
    /\ UNCHANGED <<pc, authVars, contact, concVars, os_linesep>>

\* menu choice 6: "Goodbye!", and the process ends
MenuExit ==
    /\ pc = "menu"
    /\ pc' = "idle"
    /\ current_user' = NoUser
    /\ contacts' = <<>>
    /\ call' = [op |-> "exit", arg |-> ""]
    /\ ret' = None
    /\ UNCHANGED <<credFile, contactsFile, contact, concVars, os_linesep>>

Next ==
    \/ \E username \in MenuUsernames, password \in MenuPasswords :
            AttemptLogin(username, password)
    \/ LoginFailedExit
    \/ OpenPhonebook
    \/ \E name \in MenuNames, phone \in MenuPhones, category_inputs \in CategoryInputs :
            HandleAddContact(name, phone, Email_Bob, category_inputs)
    \/ \E query_input \in QueryInputs : HandleSearchContact(query_input)
    \/ HandleListContacts
    \/ \E query_input \in QueryInputs, choice \in UpdateChoices :
            \E value \in UpdateValues(choice) :
                HandleUpdateContact(query_input, choice, value)
    \/ \E query_input \in QueryInputs, confirm \in Confirms :
            HandleDeleteContact(query_input, confirm)
    \/ MenuExit

Spec == Init /\ [][Next]_vars

\* a step of a menu handler or of the Phonebook's construction
TouchesPhonebook ==
    \/ contacts' /= contacts
    \/ contactsFile' /= contactsFile
    \/ call'.op \in {"Phonebook", "add_contact", "search_contact",
                     "handle_list_contacts", "handle_update_contact",
                     "handle_delete_contact"}

\* C7: the credentials are written once, by a registration in a run that
\* finds no credentials file; the file then holds one data row, the username
\* and the digest of the password, and no later login, failed or not, and no
\* phonebook operation changes it.
C7_CredentialsWrittenOnce ==
    [][/\ credFile.exists => credFile' = credFile
       /\ credFile' /= credFile =>
            /\ call'.op = "setup_account"
            /\ LET rows == CsvDictRows(credFile'.text)
               IN  /\ Len(rows) = 1
                   /\ DOMAIN rows[1] = {F_username, F_password_hash}
                   /\ rows[1][F_username] \in MenuUsernames
                   /\ rows[1][F_password_hash] = Sha256Hex(call'.arg)
      ]_vars

\* a later run's login failed, with the credentials and the contacts of an
\* earlier run on disk
C7_Witness ==
    /\ call.op = "login"
    /\ ret = FALSE
    /\ credFile.exists
    /\ LoadContacts(contactsFile) /= <<>>

\* C8: the Phonebook is constructed and a menu operation runs only after
\* attempt_login returned True, by a registration when no credentials file
\* existed or by a login whose digest is the stored one; a failed login is
\* followed by the end of the run and nothing else.
C8_Gate ==
    [][/\ pc' = "gate_ok" =>
            /\ pc = "idle"
            /\ ret' = TRUE
            /\ \/ ~credFile.exists /\ call'.op = "setup_account"
               \/ /\ credFile.exists
                  /\ call'.op = "login"
                  /\ \E u \in MenuUsernames :
                        credFile = SavedCredentials(NewUser(u, call'.arg), os_linesep)
       /\ pc' = "gate_failed" => pc = "idle" /\ ret' = FALSE
       /\ pc' = "menu" => pc \in {"gate_ok", "menu"}
       /\ TouchesPhonebook => pc \in {"gate_ok", "menu"}
       /\ pc = "gate_failed" => pc' = "idle" /\ UNCHANGED <<credFile, bookVars>>
      ]_vars

\* a login with a wrong password failed, with contacts of an earlier run on
\* disk
C8_Witness ==
    /\ pc = "gate_failed"
    /\ call.op = "login"
    /\ call.arg = "Secret1"
    /\ credFile = SavedCredentials(NewUser(User_alice, "secret1"), os_linesep)
    /\ contactsFile.exists

---------------------------------------------------------------------------
(* Two processes on the same contacts.csv.  Nothing orders their steps, so *)
(* a save is the two steps the operating system sees: open(filename, "w"), *)
(* which truncates the file, and the write of the buffered text from       *)
(* offset 0 when the with block closes the file.                           *)

Procs == {1, 2}
ProcSamples == {Contact_Bob, Contact_Bobby}

\* OpenForWriting gone wrong: the file is opened without being truncated
OpenNoTruncate(file) == [exists |-> TRUE, text |-> file.text]

\* open(filename, mode="w"): the file exists and is empty
OpenForWriting(file) == [exists |-> TRUE, text |-> <<>>]

\* the file after data is written at offset 0 through a descriptor opened
\* before: what was there beyond the end of data stays
WrittenAtStart(file, data) ==
    [exists |-> TRUE, text |-> data \o SubSeq(file.text, Len(data) + 1, Len(file.text))]

InitProcs ==
    /\ pc = "idle"
    /\ credFile = NoFile
    /\ contactsFile = NoFile
    /\ current_user = NoUser
    /\ contacts = <<>>
    /\ contact = NoContact
    /\ call = NoCall
    /\ ret = None
    /\ mem = [p \in Procs |-> <<>>]
    /\ ppc = [p \in Procs |-> [state |-> "start", overlapped |-> FALSE, added |-> {}]]
    /\ lastSave = NoSave
    /\ os_linesep = Linesep_POSIX

\* a save of p begins: every save under way now overlaps another
SaveBegun(p) ==
    [q \in Procs |->
        IF q = p
        THEN [ppc[p] EXCEPT !.state = "writing",
                            !.overlapped = \E r \in Procs \ {p} : ppc[r].state = "writing"]
        ELSE IF ppc[q].state = "writing" THEN [ppc[q] EXCEPT !.overlapped = TRUE]
        ELSE ppc[q]]

\* process p: Phonebook("contacts.csv")
ProcStart(p) ==
    /\ ppc[p].state = "start"
    /\ ~LoadRaises(contactsFile)
    /\ mem' = [mem EXCEPT ![p] = LoadContacts(contactsFile)]
    /\ ppc' = [ppc EXCEPT ![p].state = "ready"]
    /\ UNCHANGED <<pc, authVars, bookVars, contact, call, ret, lastSave, os_linesep>>

\* process p: add_contact(c) up to the open() of save_contacts
ProcAddOpen(p, c) ==
    /\ ppc[p].state = "ready"
    /\ Len(mem[p]) < MaxContacts
    /\ mem' = [mem EXCEPT ![p] = Append(@, c)]
    /\ contactsFile' = OpenForWriting(contactsFile)
    /\ ppc' = [SaveBegun(p) EXCEPT ![p].added = @ \cup {c}]
    /\ lastSave' = NoSave
    /\ UNCHANGED <<pc, authVars, contacts, contact, call, ret, os_linesep>>

\* process p: delete_contact(c), c being in the list, up to the open() of
\* save_contacts
ProcDeleteOpen(p, c) ==
    /\ ppc[p].state = "ready"
    /\ InList(c, mem[p])
    /\ mem' = [mem EXCEPT ![p] = ListRemove(@, c)]
    /\ contactsFile' = OpenForWriting(contactsFile)
    /\ ppc' = SaveBegun(p)
    /\ lastSave' = NoSave
    /\ UNCHANGED <<pc, authVars, contacts, contact, call, ret, os_linesep>>

\* process p: the rest of save_contacts, the rows written and the file closed
ProcFlush(p) ==
    /\ ppc[p].state = "writing"
    /\ contactsFile' = WrittenAtStart(contactsFile, SaveText(mem[p]))
    /\ ppc' = [ppc EXCEPT ![p].state = "ready"]
    /\ lastSave' = [proc |-> p, overlapped |-> ppc[p].overlapped]
    /\ UNCHANGED <<pc, authVars, contacts, contact, call, ret, mem, os_linesep>>

NextProcs ==
    \E p \in Procs :
        \/ ProcStart(p)
        \/ \E c \in ProcSamples : ProcAddOpen(p, c)
        \/ \E c \in ProcSamples : ProcDeleteOpen(p, c)
        \/ ProcFlush(p)

SpecProcs == InitProcs /\ [][NextProcs]_vars

\* C10 as stated: the file equals the collection of the process that saved
\* last.
C10_LastWriterWins ==
    lastSave.proc /= 0 => contactsFile.text = SaveText(mem[lastSave.proc])

\* C10, amended: after a save that no save of the other process overlapped,
\* the file equals the collection of the process that saved.
C10_LastCleanWriterWins ==
    (lastSave.proc /= 0 /\ ~lastSave.overlapped) =>
        /\ contactsFile.text = SaveText(mem[lastSave.proc])
        /\ LoadContacts(contactsFile) = mem[lastSave.proc]

\* a lost update: a contact the other process added, saved and still holds
\* is not in the file the last save left
C10_Witness ==
    /\ lastSave.proc /= 0
    /\ ~lastSave.overlapped
    /\ \E q \in Procs \ {lastSave.proc} :
        /\ ppc[q].state = "ready"
        /\ \E c \in ppc[q].added :
            /\ InList(c, mem[q])
            /\ ~InList(c, LoadContacts(contactsFile))

=============================================================================
